---- MODULE Spec2Model ----
(***************************************************************************)
(* Model of plugins/mock/apply_art.py (the ApplyArt in-place ODB edit):    *)
(* option normalisation, image load, grid planning, per-cell               *)
(* classification and obstruction emission, preview and write-back.        *)
(*                                                                         *)
(* Conventions                                                             *)
(*  - An image is a record [w, h, px] with px[<<x, y>>] the 8-bit          *)
(*    intensity of pixel (x, y); y = 0 is the top row of the file.         *)
(*  - A comma-separated option value is the sequence of its fields, i.e.   *)
(*    what rl.split(",") yields; Strip is str.strip on those fields.       *)
(*  - Lengths and percentages are integers. The code computes with IEEE   *)
(*    doubles; over the lengths (1..14 and 100), percentages and divisors  *)
(*    (1..12) drawn here, int() of its products and quotients is the       *)
(*    integer floor, except for the padding at the pairs of PadDips, where *)
(*    the double falls just below the integer and int() yields one less.   *)
(*  - calls is the log of the calls made on the layout database:           *)
(*    dbBlockage_create, dbObstruction_create (logged when invoked, also   *)
(*    when the call then raises) and writeDb.                              *)
(*  - main runs with the reader that click_odb built through the odb       *)
(*    binding, so the module-level `import odb` has succeeded (odbBound).  *)
(***************************************************************************)
EXTENDS Integers, Sequences, FiniteSets, TLC

\* ------------------------------------------------------------------ bounds
MaxW == 2
MaxH == 2
MaxGrid == 2
MaxDim == 6
MaxLen == 12
MaxSteps == 4

\* --------------------------------------------------------------- constants
None == "None"
InputDb == "design.odb"
preview_scale == 8
DefaultThreshold == 128

Max(a, b) == IF a >= b THEN a ELSE b
Min(a, b) == IF a <= b THEN a ELSE b

\* odb is importable inside the container where main runs
odbBound == TRUE

\* layers of the technology (tech.findLayer / tech.getLayers)
TechLayers == {"met1", "met2"}

\* ------------------------------------------------------------------ inputs
ImageOpts == {None, "", "art.png"}
GridOpts == 0..MaxGrid
ThresholdOpts == {DefaultThreshold, 255}
AreaPctOpts == {0, 50, 100, 150}
ModeOpts == {"soft", "hard", "route"}

Box(x0, y0, x1, y1) == [xMin |-> x0, yMin |-> y0, xMax |-> x1, yMax |-> y1]
CoreOpts == {Box(0, 0, 100, 100), Box(10, 20, 12, 23)}

\* (route_layer, route_layers) pairs given on the command line
LayerOpts ==
  { <<None, <<>> >>,
    <<"met1", <<>> >>,
    <<None, << <<"met1", "met2">> >> >>,
    <<None, << <<" met2 ", " ">>, <<"met1">> >> >>,
    <<"met1", << <<"met1">> >> >>,
    <<"met99", <<>> >>,
    <<None, << <<"met1", "met99">> >> >>,
    <<"", << <<"met2", "met2">> >> >> }

\* decoded images: every size up to MaxW x MaxH in each of these patterns
Patterns == {"black", "white", "checker", "anti", "top", "left"}

Lit(pat, x, y) ==
  CASE pat = "black" -> FALSE
    [] pat = "white" -> TRUE
    [] pat = "checker" -> (x + y) % 2 = 0
    [] pat = "anti" -> (x + y) % 2 = 1
    [] pat = "top" -> y = 0
    [] pat = "left" -> x = 0

Images ==
  { [w |-> w, h |-> h,
     px |-> [p \in (0..(w-1)) \X (0..(h-1)) |->
               IF Lit(pat, p[1], p[2]) THEN 255 ELSE 0]] :
      w \in 1..MaxW, h \in 1..MaxH, pat \in Patterns }

VARIABLES
  image, grid, threshold, invert, area_pct, mode, route_layer, route_layers,
  core,
  pc, route_layer_list, want_place, want_route,
  image_file, img, cols, rows, offset_x, offset_y, cell_w, cell_h,
  r, c, placed, preview, calls, on_cells, classified,
  reported, preview_saved, result, err,
  pil, classic, steps, env, cfg, cmd

inputs == <<image, grid, threshold, invert, area_pct, mode, route_layer,
            route_layers, core>>
plan == <<image_file, img, cols, rows, offset_x, offset_y, cell_w, cell_h>>
loop == <<r, c, placed, preview, on_cells, classified>>
aux == <<classic, steps, env, cfg, cmd>>
vars == <<inputs, pc, route_layer_list, want_place, want_route, plan, loop,
          calls, reported, preview_saved, result, err, pil, aux>>

\* ------------------------------------------------------- option handling
Truthy(s) == s # None /\ s # ""

Strip(s) ==
  CASE s = " met2 " -> "met2"
    [] s = " " -> ""
    [] OTHER -> s

NonBlank(s) == Strip(s) # ""

\* [p.strip() for p in rl.split(",") if p.strip()]
Parts(rl) ==
  LET kept == SelectSeq(rl, NonBlank)
  IN [i \in 1..Len(kept) |-> Strip(kept[i])]

RECURSIVE ExtendAll(_, _)
ExtendAll(lst, rls) ==
  IF rls = <<>> THEN lst
  ELSE ExtendAll(lst \o Parts(Head(rls)), Tail(rls))

RouteLayerList(rl, rls) ==
  ExtendAll(IF Truthy(rl) THEN <<rl>> ELSE <<>>, rls)

\* hard mode forgotten
WantPlaceSoftOnly(m) == m = "soft"

WantPlace(m) == m \in {"soft", "hard"}
WantRoute(m, lst) == (m = "route") \/ (lst # <<>>)

FindLayerByName(name) == IF name \in TechLayers THEN name ELSE None

\* ------------------------------------------------------------ grid plan
\* the image used as decoded, without ImageOps.flip
FlipNone(im) == im

Flip(im) ==
  [w |-> im.w, h |-> im.h,
   px |-> [p \in DOMAIN im.px |-> im.px[<<p[1], im.h - 1 - p[2]>>]]]

\* Python 3 round() of the quotient n / d (n >= 0, d > 0): nearest integer,
\* a tie going to the even neighbour
PyRound(n, d) ==
  LET q == n \div d
      rem == n % d
  IN IF 2 * rem < d THEN q
     ELSE IF 2 * rem > d THEN q + 1
     ELSE IF q % 2 = 0 THEN q ELSE q + 1

Cols(g) == Max(1, g)
\* the quotient truncated instead of rounded
RowsTrunc(ih, cs, iw) == Max(1, (ih * cs) \div iw)

Rows(ih, cs, iw) == Max(1, PyRound(ih * cs, iw))

\* scale, in percent: max(0.0, min(1.0, area_pct / 100.0))
ScalePct(pct) == Max(0, Min(100, pct))

\* (length, percent) where len * (1.0 - pct / 100.0) / 2 evaluates, in
\* doubles, just below its exact integer value (1.0 - 0.8 is
\* 0.19999999999999996, so 10 * (1.0 - 0.8) / 2 is 0.9999999999999998)
PadDips == {<<10, 80>>, <<100, 80>>, <<100, 90>>}

\* int(len * (1.0 - scale) / 2)
Pad(len, pct) ==
  (len * (100 - ScalePct(pct))) \div 200
    - (IF <<len, ScalePct(pct)>> \in PadDips THEN 1 ELSE 0)
\* the minimum of one unit left out
CellSizeNoClamp(len, pct, n) == (len * ScalePct(pct)) \div (100 * n)

CellSize(len, pct, n) == Max(1, (len * ScalePct(pct)) \div (100 * n))

\* int(k * len / n)
Bound(k, len, n) == (k * len) \div n

\* ----------------------------------------------------------- classifier
RECURSIVE SumPx(_, _)
SumPx(im, S) ==
  IF S = {} THEN 0
  ELSE LET p == CHOOSE q \in S : TRUE
       IN im.px[p] + SumPx(im, S \ {p})

\* crop window [x0, x1) x [y0, y1) of cell (rr, cc)
Window(im, rr, cc, nr, nc) ==
  [x0 |-> Bound(cc, im.w, nc), x1 |-> Bound(cc + 1, im.w, nc),
   y0 |-> Bound(rr, im.h, nr), y1 |-> Bound(rr + 1, im.h, nr)]

\* the emptiness test left out
EmptyWindowNever(win) == FALSE

EmptyWindow(win) == win.x1 <= win.x0 \/ win.y1 <= win.y0

\* ImageStat.Stat(region).mean[0] >= threshold, as sum >= threshold * count
LumAtLeast(im, win, thr) ==
  LET S == (win.x0 .. (win.x1 - 1)) \X (win.y0 .. (win.y1 - 1))
  IN SumPx(im, S) >= thr * Cardinality(S)

\* the invert flag ignored
IsOnNoInvert(im, win, thr, inv) == LumAtLeast(im, win, thr)

IsOn(im, win, thr, inv) ==
  LET on == LumAtLeast(im, win, thr)
  IN IF inv THEN ~on ELSE on

\* -------------------------------------------------------------- emitter
\* the upper corner taken inclusively, one unit past the cell
CellRectInclusive(ox, oy, cw, ch, rr, cc) ==
  LET llx == ox + cc * cw
      lly == oy + rr * ch
  IN [llx |-> llx, lly |-> lly, urx |-> llx + cw + 1, ury |-> lly + ch + 1]

CellRect(ox, oy, cw, ch, rr, cc) ==
  LET llx == ox + cc * cw
      lly == oy + rr * ch
  IN [llx |-> llx, lly |-> lly, urx |-> llx + cw, ury |-> lly + ch]

Call(op, arg, rect, rr, cc) ==
  [op |-> op, arg |-> arg, llx |-> rect.llx, lly |-> rect.lly,
   urx |-> rect.urx, ury |-> rect.ury, r |-> rr, c |-> cc]

NoRect == [llx |-> 0, lly |-> 0, urx |-> 0, ury |-> 0]
NoErr == [kind |-> "none", arg |-> None]
Error(kind, arg) == [kind |-> kind, arg |-> arg]

\* create_placement_blockage: the calls it makes on the database
PlacementCalls(wp, m, rect, rr, cc) ==
  IF wp /\ odbBound THEN <<Call("dbBlockage_create", m, rect, rr, cc)>>
  ELSE <<>>

\* index of the first name of lst that the technology lacks, Len + 1 if none
FirstUnknown(lst) ==
  LET bad == {k \in 1..Len(lst) : FindLayerByName(lst[k]) = None}
  IN IF bad = {} THEN Len(lst) + 1
     ELSE CHOOSE k \in bad : \A j \in bad : k <= j

\* an unknown layer skipped (continue) instead of raising
RouteOutcomeSkipUnknown(wr, lst, failAt, rect, rr, cc) ==
  LET known == SelectSeq(lst, LAMBDA n : FindLayerByName(n) # None)
  IN IF ~wr \/ lst = <<>> THEN [calls |-> <<>>, err |-> [kind |-> "none", arg |-> None]]
     ELSE [calls |-> [k \in 1..Len(known) |->
                        Call("dbObstruction_create", known[k], rect, rr, cc)],
           err |-> [kind |-> "none", arg |-> None]]

\* the loop over the layers left after its first iteration
RouteOutcomeFirstOnly(wr, lst, failAt, rect, rr, cc) ==
  IF ~wr \/ lst = <<>> \/ FindLayerByName(lst[1]) = None
    THEN [calls |-> <<>>, err |-> [kind |-> "none", arg |-> None]]
  ELSE [calls |-> <<Call("dbObstruction_create", lst[1], rect, rr, cc)>>,
        err |-> [kind |-> "none", arg |-> None]]

\* the layers visited from the last to the first
RouteOutcomeReversed(wr, lst, failAt, rect, rr, cc) ==
  IF ~wr \/ lst = <<>> \/ FirstUnknown(lst) <= Len(lst)
    THEN [calls |-> <<>>, err |-> [kind |-> "none", arg |-> None]]
  ELSE [calls |-> [k \in 1..Len(lst) |->
                     Call("dbObstruction_create", lst[Len(lst) + 1 - k],
                          rect, rr, cc)],
        err |-> [kind |-> "none", arg |-> None]]

\* every layer resolved before the first obstruction is created
RouteOutcomeValidateFirst(wr, lst, failAt, rect, rr, cc) ==
  IF ~wr \/ lst = <<>>
    THEN [calls |-> <<>>, err |-> [kind |-> "none", arg |-> None]]
  ELSE IF FirstUnknown(lst) <= Len(lst)
    THEN [calls |-> <<>>,
          err |-> [kind |-> "layer_not_found", arg |-> lst[FirstUnknown(lst)]]]
  ELSE [calls |-> [k \in 1..Len(lst) |->
                     Call("dbObstruction_create", lst[k], rect, rr, cc)],
        err |-> [kind |-> "none", arg |-> None]]

\* create_route_obstruction with the failAt-th dbObstruction_create raising
\* (failAt = 0: none raises): the calls made and the error raised
RouteOutcome(wr, lst, failAt, rect, rr, cc) ==
  LET u == FirstUnknown(lst)
      stop == IF failAt > 0 THEN failAt ELSE u - 1
      made == [k \in 1..stop |->
                 Call("dbObstruction_create", lst[k], rect, rr, cc)]
  IN IF ~wr \/ ~odbBound \/ lst = <<>>
       THEN [calls |-> <<>>, err |-> NoErr]
     ELSE IF failAt > 0
       THEN [calls |-> made, err |-> Error("create_failed", lst[failAt])]
     ELSE IF u <= Len(lst)
       THEN [calls |-> made, err |-> Error("layer_not_found", lst[u])]
     ELSE [calls |-> made, err |-> NoErr]

\* the dbObstruction_create calls that can raise in one cell: those reached
FailPoints(wr, lst) ==
  IF wr THEN 0..(FirstUnknown(lst) - 1) ELSE {0}

\* the write-back left out
WriteBackSkipped(cs) == cs

WriteBack(cs) == Append(cs, Call("writeDb", InputDb, NoRect, -1, -1))

PreviewMark(rr, cc) ==
  LET px0 == cc * preview_scale
      py0 == rr * preview_scale
  IN <<px0, py0, px0 + preview_scale - 1, py0 + preview_scale - 1>>

\* ------------------------------------------------------------------ Init
NoImg == [w |-> 0, h |-> 0, px |-> [p \in {} |-> 0]]

\* the plugin's variables, idle while apply_art.py runs
AuxIdle ==
  /\ classic = <<>> /\ steps = <<>>
  /\ env = <<>> /\ cfg = <<>> /\ cmd = <<>>

Blank ==
  /\ route_layer_list = <<>> /\ want_place = FALSE /\ want_route = FALSE
  /\ cols = 0 /\ rows = 0 /\ offset_x = 0 /\ offset_y = 0
  /\ cell_w = 0 /\ cell_h = 0
  /\ r = 0 /\ c = 0 /\ placed = 0 /\ preview = {}
  /\ calls = <<>> /\ on_cells = {} /\ classified = {}
  /\ reported = -1 /\ preview_saved = FALSE
  /\ result = "running" /\ err = NoErr
  /\ pil = "untried"

Init ==
  /\ image \in ImageOpts
  /\ grid \in GridOpts
  /\ threshold \in ThresholdOpts
  /\ invert \in BOOLEAN
  /\ area_pct \in AreaPctOpts
  /\ mode \in ModeOpts
  /\ \E lo \in LayerOpts : route_layer = lo[1] /\ route_layers = lo[2]
  /\ core \in CoreOpts
  /\ image_file = NoImg /\ img = NoImg
  /\ pc = "start"
  /\ Blank
  /\ AuxIdle

\* --------------------------------------------------------------- actions
Raise(e) ==
  /\ result' = "error"
  /\ err' = e
  /\ pc' = "done"

\* lines 113-139: normalise the layer options, decide what to create
Normalize ==
  /\ pc = "start"
  /\ route_layer_list' = RouteLayerList(route_layer, route_layers)
  /\ want_place' = WantPlace(mode)
  /\ want_route' = WantRoute(mode, route_layer_list')
  /\ pc' = "image"
  /\ UNCHANGED <<aux, inputs, plan, loop, calls, reported, preview_saved,
                 result, err>>
  /\ UNCHANGED pil

\* the docstring's fallback (line 47) instead of the error: an obstruction
\* square at the core centre, then the write-back
NoImageFallback ==
  /\ pc = "image"
  /\ ~Truthy(image)
  /\ calls' = WriteBack(Append(calls,
                Call("dbObstruction_create", "met1",
                     [llx |-> (core.xMin + core.xMax) \div 2,
                      lly |-> (core.yMin + core.yMax) \div 2,
                      urx |-> (core.xMin + core.xMax) \div 2 + 1,
                      ury |-> (core.yMin + core.yMax) \div 2 + 1], -1, -1)))
  /\ result' = "ok"
  /\ pc' = "done"
  /\ UNCHANGED <<aux, inputs, route_layer_list, want_place, want_route, plan,
                 loop, reported, preview_saved, err>>
  /\ UNCHANGED pil

\* lines 222-227: no image provided
NoImage ==
  /\ pc = "image"
  /\ ~Truthy(image)
  /\ Raise(Error("no_image", None))
  /\ UNCHANGED <<aux, inputs, route_layer_list, want_place, want_route, plan,
                 loop, calls, reported, preview_saved>>
  /\ UNCHANGED pil

\* the failed import treated as one more configuration error
PillowMissingRaises ==
  /\ pc = "image"
  /\ Truthy(image)
  /\ Raise(Error("cannot_open", image))
  /\ pil' = "missing"
  /\ UNCHANGED <<aux, inputs, route_layer_list, want_place, want_route, plan,
                 loop, calls, reported, preview_saved>>

\* lines 142-148: Pillow cannot be imported
PillowMissing ==
  /\ pc = "image"
  /\ Truthy(image)
  /\ calls' = WriteBack(calls)
  /\ result' = "ok"
  /\ pc' = "done"
  /\ UNCHANGED <<aux, inputs, route_layer_list, want_place, want_route, plan,
                 loop, reported, preview_saved, err>>
  /\ pil' = "missing"

\* lines 150-157: Image.open fails
OpenFails ==
  /\ pc = "image"
  /\ Truthy(image)
  /\ \E k \in {"image_not_found", "cannot_open"} : Raise(Error(k, image))
  /\ UNCHANGED <<aux, inputs, route_layer_list, want_place, want_route, plan,
                 loop, calls, reported, preview_saved>>
  /\ pil' = "imported"

\* lines 150-180: the image decodes; flip it and plan the grid
LoadAndPlan ==
  /\ pc = "image"
  /\ Truthy(image)
  /\ \E f \in Images :
       /\ image_file' = f
       /\ img' = Flip(f)
       /\ cols' = Cols(grid)
       /\ rows' = Rows(f.h, Cols(grid), f.w)
  /\ offset_x' = core.xMin + Pad(core.xMax - core.xMin, area_pct)
  /\ offset_y' = core.yMin + Pad(core.yMax - core.yMin, area_pct)
  /\ cell_w' = CellSize(core.xMax - core.xMin, area_pct, cols')
  /\ cell_h' = CellSize(core.yMax - core.yMin, area_pct, rows')
  /\ preview' = {}
  /\ placed' = 0
  /\ r' = 0 /\ c' = 0
  /\ pc' = "grid"
  /\ UNCHANGED <<aux, inputs, route_layer_list, want_place, want_route, calls,
                 on_cells, classified, reported, preview_saved, result, err>>
  /\ pil' = "imported"

NextR == IF c + 1 < cols THEN r ELSE r + 1
NextC == IF c + 1 < cols THEN c + 1 ELSE 0

\* lines 181-212: one iteration of the loop body, for cell (r, c)
Cell ==
  /\ pc = "grid"
  /\ r < rows
  /\ LET win == Window(img, r, c, rows, cols)
         rect == CellRect(offset_x, offset_y, cell_w, cell_h, r, c)
         pcalls == PlacementCalls(want_place, mode, rect, r, c)
     IN IF EmptyWindow(win)
          THEN /\ r' = NextR /\ c' = NextC
               /\ UNCHANGED <<placed, preview, on_cells, classified, calls,
                              result, err, pc>>
        ELSE IF ~IsOn(img, win, threshold, invert)
          THEN /\ r' = NextR /\ c' = NextC
               /\ classified' = classified \cup {<<r, c>>}
               /\ UNCHANGED <<placed, preview, on_cells, calls,
                              result, err, pc>>
        ELSE \E failAt \in FailPoints(want_route, route_layer_list) :
               LET out == RouteOutcome(want_route, route_layer_list, failAt,
                                       rect, r, c)
               IN /\ classified' = classified \cup {<<r, c>>}
                  /\ on_cells' = on_cells \cup {<<r, c>>}
                  /\ calls' = calls \o pcalls \o out.calls
                  /\ IF out.err = NoErr
                       THEN /\ placed' = placed + 1
                            /\ preview' = preview \cup {PreviewMark(r, c)}
                            /\ r' = NextR /\ c' = NextC
                            /\ UNCHANGED <<result, err, pc>>
                     ELSE /\ Raise(out.err)
                          /\ UNCHANGED <<placed, preview, r, c>>
  /\ UNCHANGED <<aux, inputs, route_layer_list, want_place, want_route, plan,
                 reported, preview_saved>>
  /\ UNCHANGED pil

\* lines 213-221 and 230: report the tally, save the preview, write back
Finish ==
  /\ pc = "grid"
  /\ r >= rows
  /\ reported' = placed
  /\ preview_saved' \in BOOLEAN
  /\ calls' = WriteBack(calls)
  /\ result' = "ok"
  /\ pc' = "done"
  /\ UNCHANGED <<aux, inputs, route_layer_list, want_place, want_route, plan,
                 loop, err>>
  /\ UNCHANGED pil

Next ==
  \/ Normalize
  \/ NoImage
  \/ PillowMissing
  \/ OpenFails
  \/ LoadAndPlan
  \/ Cell
  \/ Finish

Spec == Init /\ [][Next]_vars

\* ------------------------------------------- grid planning on its own
\* lines 159-161 applied to image sizes and column counts up to MaxDim
SizedImages ==
  { [w |-> w, h |-> h, px |-> [p \in (0..(w-1)) \X (0..(h-1)) |-> 0]] :
      w \in 1..MaxDim, h \in 1..MaxDim }

InitRows ==
  /\ image = "art.png"
  /\ grid \in (-1)..MaxDim
  /\ threshold = DefaultThreshold
  /\ invert = FALSE
  /\ area_pct = 100
  /\ mode = "soft"
  /\ route_layer = None /\ route_layers = <<>>
  /\ core = Box(0, 0, 100, 100)
  /\ image_file \in SizedImages
  /\ img = Flip(image_file)
  /\ pc = "size"
  /\ Blank
  /\ AuxIdle

PlanRows ==
  /\ pc = "size"
  /\ cols' = Cols(grid)
  /\ rows' = Rows(img.h, cols', img.w)
  /\ pc' = "planned"
  /\ UNCHANGED <<aux, inputs, route_layer_list, want_place, want_route,
                 image_file, img, offset_x, offset_y, cell_w, cell_h, loop,
                 calls, reported, preview_saved, result, err>>
  /\ UNCHANGED pil

NextRows == PlanRows

SpecRows == InitRows /\ [][NextRows]_vars

\* ------------------------------------------- area planning on its own
\* lines 159-173 applied to target boxes with sides up to MaxLen
PlanPcts == {-50, 0, 20, 25, 50, 75, 80, 90, 100, 150}

PlanCores ==
  { Box(x0, 0, x0 + w, h) :
      x0 \in {0, 7}, w \in 1..MaxLen, h \in {10, 100} }

InitPlan ==
  /\ image = "art.png"
  /\ grid \in {1, 2}
  /\ threshold = DefaultThreshold
  /\ invert = FALSE
  /\ area_pct \in PlanPcts
  /\ mode = "soft"
  /\ route_layer = None /\ route_layers = <<>>
  /\ core \in PlanCores
  /\ image_file = [w |-> 1, h |-> 1, px |-> [p \in {<<0, 0>>} |-> 255]]
  /\ img = Flip(image_file)
  /\ pc = "sized"
  /\ Blank
  /\ AuxIdle

PlanArea ==
  /\ pc = "sized"
  /\ cols' = Cols(grid)
  /\ rows' = Rows(img.h, cols', img.w)
  /\ offset_x' = core.xMin + Pad(core.xMax - core.xMin, area_pct)
  /\ offset_y' = core.yMin + Pad(core.yMax - core.yMin, area_pct)
  /\ cell_w' = CellSize(core.xMax - core.xMin, area_pct, cols')
  /\ cell_h' = CellSize(core.yMax - core.yMin, area_pct, rows')
  /\ pc' = "area_planned"
  /\ UNCHANGED <<aux, inputs, route_layer_list, want_place, want_route,
                 image_file, img, loop, calls, reported, preview_saved,
                 result, err, pil>>

NextPlan == PlanArea

SpecPlan == InitPlan /\ [][NextPlan]_vars

\* ------------------------------------------ ClassicWithArt's step list
\* librelane_plugin_mock/__init__.py, class body of ClassicWithArt
EQY == "Yosys.EQY"
GlobalPlacementSkipIO == "OpenROAD.GlobalPlacementSkipIO"
GlobalPlacement == "OpenROAD.GlobalPlacement"
ApplyArt == "Odb.ApplyArt"
ViewerPrepareBundle == "Viewer.PrepareBundle"

\* step classes a Classic.Steps list is drawn from
ClassicStepNames ==
  {EQY, GlobalPlacementSkipIO, GlobalPlacement, "Yosys.Synthesis"}

ClassicLists == UNION {[1..n -> ClassicStepNames] : n \in 0..MaxSteps}

\* list.index(x), 0-based; -1 stands for ValueError
IndexOf(lst, x) ==
  LET hits == {i \in 1..Len(lst) : lst[i] = x}
  IN IF hits = {} THEN -1
     ELSE (CHOOSE i \in hits : \A j \in hits : i <= j) - 1

\* list.insert(idx, x) for 0 <= idx <= len
InsertAt(lst, idx, x) ==
  SubSeq(lst, 1, idx) \o <<x>> \o SubSeq(lst, idx + 1, Len(lst))

\* [s for s in Classic.Steps if s is not Yosys.EQY]
DropEQY(lst) == SelectSeq(lst, LAMBDA st : st # EQY)

InsertIdx(lst) ==
  IF IndexOf(lst, GlobalPlacementSkipIO) # -1
    THEN IndexOf(lst, GlobalPlacementSkipIO)
  ELSE IF IndexOf(lst, GlobalPlacement) # -1
    THEN IndexOf(lst, GlobalPlacement)
  ELSE Len(lst)

WithArt(lst) == InsertAt(lst, InsertIdx(lst), ApplyArt)

WithViewer(lst) ==
  IF IndexOf(lst, ApplyArt) # -1
    THEN InsertAt(lst, IndexOf(lst, ApplyArt) + 1, ViewerPrepareBundle)
  ELSE Append(lst, ViewerPrepareBundle)

InitSteps ==
  /\ classic \in ClassicLists
  /\ steps = <<>>
  /\ env = <<>> /\ cfg = <<>> /\ cmd = <<>>
  /\ image = None /\ grid = 0 /\ threshold = DefaultThreshold
  /\ invert = FALSE /\ area_pct = 0 /\ mode = "soft"
  /\ route_layer = None /\ route_layers = <<>>
  /\ core = Box(0, 0, 100, 100)
  /\ image_file = NoImg /\ img = NoImg
  /\ pc = "class"
  /\ Blank

\* lines 52-62, 140 and 371-378: the class body builds Steps
BuildSteps ==
  /\ pc = "class"
  /\ steps' = WithViewer(WithArt(DropEQY(classic)))
  /\ pc' = "registered"
  /\ UNCHANGED <<classic, env, cfg, cmd, inputs, route_layer_list,
                 want_place, want_route, plan, loop, calls, reported,
                 preview_saved, result, err, pil>>

NextSteps == BuildSteps

SpecSteps == InitSteps /\ [][NextSteps]_vars

\* ---------------------------------------------- ApplyArt.get_command
\* a number missing from art_config.json (cfg.get(...) is None)
NoNum == -1

\* the TT_ART_* variables; None: not set
EnvOpts ==
  [image : {None, "env.png"}, grid : {None, "8"}, threshold : {None, "200"},
   invert : {None, "1", "no"}, area_pct : {None, "50"},
   mode : {None, "route"}, route_layer : {None, "met2"},
   route_layers : {<<>>, <<"met1", " met2 ", "met1">>}]

\* art_config.json; present = FALSE: no readable file
CfgOpts ==
  [present : {TRUE}, image : {None, "cfg.png"}, grid : {NoNum, 40},
   threshold : {NoNum, 128}, invert : BOOLEAN, area_pct : {NoNum, 20},
   mode : {None, "soft"}, route_layer : {None, "met1"},
   route_layers : {<<>>, <<"met2", "met1">>}]
  \cup
  {[present |-> FALSE, image |-> None, grid |-> NoNum, threshold |-> NoNum,
    invert |-> FALSE, area_pct |-> NoNum, mode |-> None,
    route_layer |-> None, route_layers |-> <<>>]}

\* str(inv).lower() in ("1", "true", "yes")
InvertWords == {"1", "true", "yes"}

\* list(dict.fromkeys(lst))
RECURSIVE Dedupe(_)
Dedupe(lst) ==
  IF lst = <<>> THEN <<>>
  ELSE LET init == Dedupe(SubSeq(lst, 1, Len(lst) - 1))
           last == lst[Len(lst)]
       IN IF \E i \in 1..Len(init) : init[i] = last THEN init
          ELSE Append(init, last)

\* line 91 and the try block: the config file is read and usable
UseCfg(e, f) ==
  /\ ~(Truthy(e.image) \/ Truthy(e.grid) \/ Truthy(e.threshold)
         \/ Truthy(e.invert) \/ Truthy(e.area_pct))
  /\ f.present

\* lines 104-116: the values after the config file has been consulted
Resolved(e, f) ==
  IF ~UseCfg(e, f)
    THEN [image |-> e.image, grid |-> e.grid, threshold |-> e.threshold,
          invert |-> e.invert, area_pct |-> e.area_pct, mode |-> e.mode,
          route_layer |-> e.route_layer,
          route_layers |-> Parts(e.route_layers)]
  ELSE [image |-> IF Truthy(f.image) THEN f.image ELSE e.image,
        grid |-> IF f.grid # NoNum THEN ToString(f.grid) ELSE e.grid,
        threshold |-> IF f.threshold # NoNum THEN ToString(f.threshold)
                      ELSE e.threshold,
        invert |-> IF f.invert THEN "1" ELSE e.invert,
        area_pct |-> IF f.area_pct # NoNum THEN ToString(f.area_pct)
                     ELSE e.area_pct,
        mode |-> IF Truthy(f.mode) THEN f.mode ELSE e.mode,
        route_layer |-> IF Truthy(f.route_layer) THEN f.route_layer
                        ELSE e.route_layer,
        route_layers |-> Parts(e.route_layers) \o Parts(f.route_layers)]

Opt(v) == IF Truthy(v) THEN v ELSE None

\* lines 120-138: the options appended to the command; None: not put
Options(v) ==
  [image |-> Opt(v.image), grid |-> Opt(v.grid),
   threshold |-> Opt(v.threshold), invert |-> v.invert \in InvertWords,
   area_pct |-> Opt(v.area_pct), mode |-> Opt(v.mode),
   route_layer |-> Opt(v.route_layer),
   route_layers |-> Dedupe(v.route_layers)]

InitCmd ==
  /\ env \in EnvOpts
  /\ cfg \in CfgOpts
  /\ cmd = <<>>
  /\ classic = <<>> /\ steps = <<>>
  /\ image = None /\ grid = 0 /\ threshold = DefaultThreshold
  /\ invert = FALSE /\ area_pct = 0 /\ mode = "soft"
  /\ route_layer = None /\ route_layers = <<>>
  /\ core = Box(0, 0, 100, 100)
  /\ image_file = NoImg /\ img = NoImg
  /\ pc = "step"
  /\ Blank

\* lines 75-138
GetCommand ==
  /\ pc = "step"
  /\ cmd' = Options(Resolved(env, cfg))
  /\ pc' = "cmd_built"
  /\ UNCHANGED <<classic, steps, env, cfg, inputs, route_layer_list,
                 want_place, want_route, plan, loop, calls, reported,
                 preview_saved, result, err, pil>>

NextCmd == GetCommand

SpecCmd == InitCmd /\ [][NextCmd]_vars

\* ============================================================ properties
IsCreate(k) == k.op \in {"dbBlockage_create", "dbObstruction_create"}
RectOf(k) == [llx |-> k.llx, lly |-> k.lly, urx |-> k.urx, ury |-> k.ury]

CallsAt(cell, op) ==
  SelectSeq(calls, LAMBDA k : k.op = op /\ <<k.r, k.c>> = cell)
ArgsAt(cell, op) ==
  LET sel == CallsAt(cell, op) IN [i \in 1..Len(sel) |-> sel[i].arg]
CallsOp(op) == SelectSeq(calls, LAMBDA k : k.op = op)
RectsOp(op) == {RectOf(calls[i]) : i \in {j \in 1..Len(calls) : calls[j].op = op}}

Rect(x0, y0, x1, y1) == [llx |-> x0, lly |-> y0, urx |-> x1, ury |-> y1]

\* the cell whose emission raised, if any
AbortedCells ==
  IF err.kind \in {"layer_not_found", "create_failed"} THEN {<<r, c>>} ELSE {}
CompletedCells == on_cells \ AbortedCells

HasUnknown == FirstUnknown(route_layer_list) <= Len(route_layer_list)
NoWriteBack == \A i \in 1..Len(calls) : calls[i].op # "writeDb"

\* ---- C1
Checkerboard ==
  [w |-> 2, h |-> 2,
   px |-> [p \in (0..1) \X (0..1) |-> IF p[1] = p[2] THEN 255 ELSE 0]]

CheckerboardRun ==
  /\ image_file = Checkerboard
  /\ grid = 2 /\ threshold = 128 /\ ~invert /\ area_pct = 100
  /\ mode \in {"soft", "hard"}
  /\ route_layer_list = <<>>
  /\ core = Box(0, 0, 100, 100)
  /\ result = "ok"

\* C1 as stated: the checkerboard run has 2 on cells, one blockage request
\* for each, on the rectangles (0,0)-(50,50) and (50,50)-(100,100)
C1_Claimed ==
  CheckerboardRun =>
    /\ Cardinality(on_cells) = 2
    /\ Len(CallsOp("dbBlockage_create")) = 2
    /\ RectsOp("dbBlockage_create") =
         {Rect(0, 0, 50, 50), Rect(50, 50, 100, 100)}

\* C1 (amended): the checkerboard run has exactly 2 on cells, (row 0, col 1)
\* and (row 1, col 0); it makes exactly one blockage request for each and no
\* other creation call; the rectangles are (50,0)-(100,50) and
\* (0,50)-(50,100), the image's white squares with y growing upward; the
\* preview has exactly the top-right and bottom-left quadrants filled and
\* the reported tally is 2
C1_Checkerboard ==
  CheckerboardRun =>
    /\ on_cells = {<<0, 1>>, <<1, 0>>}
    /\ Len(calls) = 3
    /\ RectsOp("dbBlockage_create") =
         {Rect(50, 0, 100, 50), Rect(0, 50, 50, 100)}
    /\ \A cell \in on_cells : Len(CallsAt(cell, "dbBlockage_create")) = 1
    /\ CallsOp("dbObstruction_create") = <<>>
    /\ preview = {<<8, 0, 15, 7>>, <<0, 8, 7, 15>>}
    /\ reported = 2

C1_Witness == CheckerboardRun /\ Len(calls) = 3

\* ---- C2
\* C2 as stated: for grid >= 1 and area_pct in [0,100], the rectangle of
\* every creation call lies inside the target box
C2_Claimed ==
  (grid >= 1 /\ area_pct \in 0..100) =>
    \A i \in 1..Len(calls) :
      IsCreate(calls[i]) =>
        /\ core.xMin <= calls[i].llx /\ calls[i].urx <= core.xMax
        /\ core.yMin <= calls[i].lly /\ calls[i].ury <= core.yMax

\* ---- C3
\* C3 as stated, read for the runs that reach the grid pass: when the layer
\* list holds a name the technology lacks, the run ends in a configuration
\* error, never in success, and never writes back
C3_Claimed ==
  (result # "running" /\ cols > 0 /\ want_route /\ HasUnknown) =>
    /\ result = "error"
    /\ NoWriteBack

\* C3 (amended): when the layer list holds a name the technology lacks and
\* some cell classifies on, the run aborts on that cell with a
\* configuration error, never succeeds and never writes back; the error
\* names the first unknown layer unless a creation call on an earlier layer
\* raised, and no obstruction is requested for the unknown layer or a later
\* one
C3_UnknownLayerAborts ==
  (HasUnknown /\ on_cells # {}) =>
    LET u == FirstUnknown(route_layer_list)
    IN /\ result = "error"
       /\ NoWriteBack
       /\ \/ err = Error("layer_not_found", route_layer_list[u])
          \/ \E k \in 1..(u - 1) :
               err = Error("create_failed", route_layer_list[k])
       /\ Cardinality(on_cells) = 1
       /\ \A cell \in on_cells :
            \E n \in 0..(u - 1) :
              ArgsAt(cell, "dbObstruction_create") =
                SubSeq(route_layer_list, 1, n)

C3_Witness ==
  /\ HasUnknown /\ on_cells # {}
  /\ err.kind = "layer_not_found"
  /\ CallsOp("dbObstruction_create") # <<>>

\* ---- C4
\* C4: a successful run has exactly one writeDb call, on the input path, and
\* it is the last call of the run; a run that has not succeeded (aborted on
\* a configuration error, or still running) has made none
C4_WriteBackOnce ==
  /\ result = "ok" =>
       /\ Len(calls) >= 1
       /\ calls[Len(calls)] = Call("writeDb", InputDb, NoRect, -1, -1)
       /\ \A i \in 1..(Len(calls) - 1) : IsCreate(calls[i])
  /\ result # "ok" => NoWriteBack

C4_Witness ==
  /\ result = "ok"
  /\ Len(calls) >= 3
  /\ calls[Len(calls)].op = "writeDb"

C6_Claimed ==
  reported # -1 =>
    reported =
      Cardinality({cell \in (0..(rows - 1)) \X (0..(cols - 1)) :
                     CallsAt(cell, "dbBlockage_create") # <<>>})

\* ---- C7
\* C7 as stated: the layer list used for emission holds distinct names, so
\* no cell gets two obstruction requests on one layer
C7_Claimed ==
  /\ \A i, j \in 1..Len(route_layer_list) :
       route_layer_list[i] = route_layer_list[j] => i = j
  /\ \A cell \in on_cells :
       LET a == ArgsAt(cell, "dbObstruction_create")
       IN \A i, j \in 1..Len(a) : a[i] = a[j] => i = j

\* ---- C8
\* C8 as stated, read for the cells whose emission ran to its end: a
\* placement blockage is requested iff the mode is soft or hard, routing
\* obstructions are requested iff the mode is route or a layer was supplied
C8_Claimed ==
  \A cell \in CompletedCells :
    /\ (CallsAt(cell, "dbBlockage_create") # <<>>) <=> (mode \in {"soft", "hard"})
    /\ (CallsAt(cell, "dbObstruction_create") # <<>>) <=>
         (mode = "route" \/ route_layer_list # <<>>)

\* C8 (amended): for every on cell whose emission ran to its end, exactly
\* one placement blockage is requested if the mode is soft or hard and none
\* otherwise, and, whatever the mode, one routing obstruction is requested
\* per listed layer, in list order, all on the cell's rectangle; so routing
\* obstructions are requested iff at least one layer name was supplied, and
\* mode route without layer names requests nothing for the cell. A cell
\* that is not on gets no request
C8_Emission ==
  /\ \A cell \in CompletedCells :
       LET rect == CellRect(offset_x, offset_y, cell_w, cell_h,
                            cell[1], cell[2])
       IN /\ Len(CallsAt(cell, "dbBlockage_create")) =
               (IF mode \in {"soft", "hard"} THEN 1 ELSE 0)
          /\ ArgsAt(cell, "dbBlockage_create") =
               (IF mode \in {"soft", "hard"} THEN <<mode>> ELSE <<>>)
          /\ ArgsAt(cell, "dbObstruction_create") = route_layer_list
          /\ \A i \in 1..Len(calls) :
               <<calls[i].r, calls[i].c>> = cell => RectOf(calls[i]) = rect
  /\ \A i \in 1..Len(calls) :
       IsCreate(calls[i]) => <<calls[i].r, calls[i].c>> \in on_cells

C8_Witness ==
  /\ mode = "soft" /\ route_layer_list = <<"met1", "met2">>
  /\ CompletedCells # {}
  /\ Len(calls) >= 3

\* ---- C9
AllResolve == FirstUnknown(route_layer_list) > Len(route_layer_list)

\* C9 as stated: in mode route with layers that all resolve, every on cell
\* has one obstruction request per layer and no blockage request
C9_Claimed ==
  (mode = "route" /\ AllResolve) =>
    \A cell \in on_cells :
      /\ Len(CallsAt(cell, "dbObstruction_create")) = Len(route_layer_list)
      /\ CallsAt(cell, "dbBlockage_create") = <<>>

\* C9 (amended): in mode route with n layers that all resolve, every on cell
\* whose emission is not cut short by a failing obstruction creation has
\* exactly n obstruction requests, one per layer in list order on the cell's
\* rectangle, and the run makes no blockage request
C9_RouteMode ==
  (mode = "route" /\ AllResolve) =>
    /\ CallsOp("dbBlockage_create") = <<>>
    /\ \A cell \in CompletedCells :
         /\ ArgsAt(cell, "dbObstruction_create") = route_layer_list
         /\ \A i \in 1..Len(calls) :
              <<calls[i].r, calls[i].c>> = cell =>
                RectOf(calls[i]) = CellRect(offset_x, offset_y, cell_w,
                                            cell_h, cell[1], cell[2])

C9_Witness ==
  /\ mode = "route" /\ route_layer_list = <<"met1", "met2">>
  /\ Cardinality(CompletedCells) >= 2
  /\ result = "ok"

\* ---- C10
\* k is the integer nearest to n / d, the even one of the two on a tie
NearestEven(k, n, d) ==
  LET dist == IF k * d >= n THEN k * d - n ELSE n - k * d
  IN 2 * dist <= d /\ (2 * dist = d => k % 2 = 0)

\* C10: the column count is the requested one clamped to at least 1, and
\* the row count is max(1, round(height * cols / width)), round being the
\* nearest integer (Python's round: a tie goes to the even neighbour)
C10_RowCount ==
  pc = "planned" =>
    /\ cols = (IF grid < 1 THEN 1 ELSE grid)
    /\ \E k \in 0..(img.h * cols) :
         /\ NearestEven(k, img.h * cols, img.w)
         /\ rows = (IF k < 1 THEN 1 ELSE k)

C10_Witness ==
  pc = "planned" /\ img.h = 5 /\ img.w = 2 /\ grid = -1 /\ rows = 2

\* ---- C11
Abs(x) == IF x >= 0 THEN x ELSE -x

\* offset + len * fraction / 2 is less than 1 away from lo + len / 2
\* (both sides times 200, pct being the clamped percentage)
Centred(offset, lo, len, pct) ==
  Abs(200 * (offset - lo) + len * pct - 100 * len) < 200

\* C11 as stated: for every area percentage in [0,100] the offset is
\* target_min + floor(target_len * (1 - fraction) / 2) on both axes, and
\* offset + scaled_len / 2 is less than 1 unit away from the target's centre
C11_Claimed ==
  (pc = "area_planned" /\ area_pct \in 0..100) =>
    LET w == core.xMax - core.xMin
        h == core.yMax - core.yMin
    IN /\ offset_x = core.xMin + (w * (100 - area_pct)) \div 200
       /\ offset_y = core.yMin + (h * (100 - area_pct)) \div 200
       /\ Centred(offset_x, core.xMin, w, area_pct)
       /\ Centred(offset_y, core.yMin, h, area_pct)

\* ---- C12
AllCells == (0..(rows - 1)) \X (0..(cols - 1))
\* the cells the loop has gone past
Passed == {cell \in AllCells : cell[1] < r \/ (cell[1] = r /\ cell[2] < c)}
WindowOf(cell) == Window(img, cell[1], cell[2], rows, cols)
PixelsOf(win) == (win.x0 .. (win.x1 - 1)) \X (win.y0 .. (win.y1 - 1))

\* the mean of a window of 0/255 pixels is at least thr
MeanAtLeast(win, thr) ==
  255 * Cardinality({p \in PixelsOf(win) : img.px[p] = 255}) >=
    thr * Cardinality(PixelsOf(win))

Uniform(v) == \A p \in DOMAIN image_file.px : image_file.px[p] = v

\* C12: every cell with a non-empty crop window that the loop has reached is
\* classified, on iff (mean intensity >= threshold) XOR invert; so with
\* threshold 128 an all-255 image has every such cell on without invert and
\* off with invert, and an all-0 image the reverse
C12_Classification ==
  cols > 0 =>
    \A cell \in Passed \cup classified :
      ~EmptyWindow(WindowOf(cell)) =>
        /\ cell \in classified
        /\ (cell \in on_cells) <=> (MeanAtLeast(WindowOf(cell), threshold) # invert)
        /\ (threshold = 128 /\ Uniform(255)) => ((cell \in on_cells) <=> ~invert)
        /\ (threshold = 128 /\ Uniform(0)) => ((cell \in on_cells) <=> invert)

C12_Witness ==
  /\ threshold = 128 /\ invert /\ Uniform(0)
  /\ Cardinality(on_cells) >= 2
  /\ result = "ok"

\* ---- C13
\* C13: when an image is supplied and Pillow cannot be imported, the run
\* makes no creation call, calls writeDb exactly once and ends successfully,
\* with no configuration error
C13_PillowMissing ==
  pil = "missing" =>
    /\ Truthy(image)
    /\ result = "ok"
    /\ err = NoErr
    /\ calls = <<Call("writeDb", InputDb, NoRect, -1, -1)>>

C13_Witness == pil = "missing" /\ pc = "done" /\ Len(calls) = 1

\* ---- C14
Without(lst, S) == SelectSeq(lst, LAMBDA st : st \notin S)

\* C14 as stated: the step list keeps every Classic step in its order and
\* differs only by the two insertions, ApplyArt right before the first
\* global placement step (SkipIO, else GlobalPlacement, else at the end)
\* and ViewerPrepareBundle right after ApplyArt
C14_Claimed ==
  pc = "registered" =>
    LET a == IndexOf(steps, ApplyArt) + 1
        anchor == IF IndexOf(classic, GlobalPlacementSkipIO) # -1
                    THEN GlobalPlacementSkipIO
                  ELSE GlobalPlacement
    IN /\ Without(steps, {ApplyArt, ViewerPrepareBundle}) = classic
       /\ Len(steps) = Len(classic) + 2
       /\ a >= 1
       /\ steps[a + 1] = ViewerPrepareBundle
       /\ IF IndexOf(classic, anchor) # -1
            THEN /\ steps[a + 2] = anchor
                 /\ \A i \in 1..(a - 1) : steps[i] # anchor
          ELSE a + 1 = Len(steps)

\* ---- C15
\* the source-pixel window of the cell is empty: floor((k+1)*n/m) <=
\* floor(k*n/m) on the x or the y axis
Degenerate(cell) ==
  \/ ((cell[2] + 1) * img.w) \div cols <= (cell[2] * img.w) \div cols
  \/ ((cell[1] + 1) * img.h) \div rows <= (cell[1] * img.h) \div rows

\* C15: a cell whose crop window is empty is never classified, gets no
\* request, is not counted in the tally and is not marked in the preview;
\* such cells exist exactly when cols exceeds the image width or rows the
\* image height
C15_EmptySkipped ==
  cols > 0 =>
    /\ \A cell \in AllCells :
         Degenerate(cell) =>
           /\ cell \notin classified
           /\ cell \notin on_cells
           /\ \A i \in 1..Len(calls) : <<calls[i].r, calls[i].c>> # cell
           /\ PreviewMark(cell[1], cell[2]) \notin preview
    /\ placed = Cardinality(CompletedCells)
    /\ Cardinality(preview) = placed
    /\ (\E cell \in AllCells : Degenerate(cell)) <=>
         (cols > img.w \/ rows > img.h)

C15_Witness ==
  /\ cols > 0
  /\ \E cell \in Passed : Degenerate(cell)
  /\ placed >= 1
  /\ result = "ok"

\* ---- C16
\* C16: creation calls are issued in row-major cell order; within a cell
\* the placement blockage comes before the routing obstructions, and the
\* routing obstructions follow the order of the layer list
C16_RowMajor ==
  /\ \A i, j \in 1..Len(calls) :
       (i < j /\ IsCreate(calls[i]) /\ IsCreate(calls[j])) =>
         /\ \/ calls[i].r < calls[j].r
            \/ (calls[i].r = calls[j].r /\ calls[i].c <= calls[j].c)
         /\ (calls[i].r = calls[j].r /\ calls[i].c = calls[j].c) =>
              ~(calls[i].op = "dbObstruction_create"
                  /\ calls[j].op = "dbBlockage_create")
  /\ \A cell \in on_cells :
       LET a == ArgsAt(cell, "dbObstruction_create")
       IN Len(a) <= Len(route_layer_list)
            /\ a = SubSeq(route_layer_list, 1, Len(a))

C16_Witness ==
  /\ mode = "hard" /\ route_layer_list = <<"met2", "met1">>
  /\ \E i, j \in 1..Len(calls) :
       /\ calls[i].op = "dbObstruction_create" /\ calls[j].op = "dbBlockage_create"
       /\ i < j /\ calls[i].r < calls[j].r /\ calls[i].c > calls[j].c
  /\ result = "ok"

\* ---- C17
\* C17 as stated: for each of image, grid, threshold, invert, area_pct,
\* mode and route_layer, a set and non-empty TT_ART_* variable decides the
\* option put on the command line, whatever art_config.json holds
C17_Claimed ==
  pc = "cmd_built" =>
    /\ Truthy(env.image) => cmd.image = env.image
    /\ Truthy(env.grid) => cmd.grid = env.grid
    /\ Truthy(env.threshold) => cmd.threshold = env.threshold
    /\ Truthy(env.invert) => (cmd.invert <=> env.invert \in InvertWords)
    /\ Truthy(env.area_pct) => cmd.area_pct = env.area_pct
    /\ Truthy(env.mode) => cmd.mode = env.mode
    /\ Truthy(env.route_layer) => cmd.route_layer = env.route_layer

\* ---- C18
CentreX == (core.xMin + core.xMax) \div 2
CentreY == (core.yMin + core.yMax) \div 2

\* C18 as stated: with area percentage 0 the cells are 1x1 and every
\* emitted rectangle is the unit square at the centre point of the target
C18_Claimed ==
  (area_pct = 0 /\ cols > 0) =>
    /\ cell_w = 1 /\ cell_h = 1
    /\ \A i \in 1..Len(calls) :
         IsCreate(calls[i]) =>
           RectOf(calls[i]) =
             Rect(CentreX, CentreY, CentreX + 1, CentreY + 1)

\* C18 (amended): with area percentage 0 the run does not fail for that
\* reason (it ends in success unless a routing layer is unknown or an
\* obstruction creation fails); the planned region is zero-size at the
\* target's centre (offset = floor of the midpoint), cell_w = cell_h = 1,
\* and the rectangle emitted for cell (row, col) is the unit square whose
\* lower-left corner is (centre_x + col, centre_y + row): only cell (0, 0)
\* sits at the centre point, the others form a unit lattice above and to
\* the right of it
C18_ZeroArea ==
  (area_pct = 0 /\ cols > 0) =>
    /\ offset_x = CentreX /\ offset_y = CentreY
    /\ cell_w = 1 /\ cell_h = 1
    /\ \A i \in 1..Len(calls) :
         IsCreate(calls[i]) =>
           RectOf(calls[i]) =
             Rect(CentreX + calls[i].c, CentreY + calls[i].r,
                  CentreX + calls[i].c + 1, CentreY + calls[i].r + 1)
    /\ result = "error" => err.kind \in {"layer_not_found", "create_failed"}

C18_Witness ==
  /\ area_pct = 0 /\ result = "ok"
  /\ \E i \in 1..Len(calls) :
       IsCreate(calls[i]) /\ calls[i].c >= 1 /\ calls[i].r >= 1

\* ---- C19
\* C19: when the run aborts on an unresolvable layer, it does so in the
\* first on cell in row-major order (every cell before it is empty or off);
\* the calls made so far are exactly that cell's placement blockage, if the
\* mode is soft or hard, followed by its routing obstructions for the
\* layers before the first unresolvable name; no other cell has a call and
\* writeDb has not been called
C19_AbortOnFirstOnCell ==
  err.kind = "layer_not_found" =>
    LET u == FirstUnknown(route_layer_list)
        rect == Rect(offset_x + c * cell_w, offset_y + r * cell_h,
                     offset_x + c * cell_w + cell_w,
                     offset_y + r * cell_h + cell_h)
        blockage == IF mode \in {"soft", "hard"}
                      THEN <<Call("dbBlockage_create", mode, rect, r, c)>>
                    ELSE <<>>
    IN /\ result = "error"
       /\ u <= Len(route_layer_list)
       /\ err.arg = route_layer_list[u]
       /\ on_cells = {<<r, c>>}
       /\ \A cell \in Passed :
            Degenerate(cell)
              \/ ~(MeanAtLeast(WindowOf(cell), threshold) # invert)
       /\ calls = blockage \o
                  [k \in 1..(u - 1) |->
                     Call("dbObstruction_create", route_layer_list[k],
                          rect, r, c)]

C19_Witness ==
  /\ err.kind = "layer_not_found"
  /\ mode = "hard"
  /\ Len(calls) = 2
  /\ \E cell \in Passed : cell \in classified

\* ---- C20
InteriorsDisjoint(a, b) ==
  \/ a.urx <= b.llx \/ b.urx <= a.llx
  \/ a.ury <= b.lly \/ b.ury <= a.lly

\* C20: every emitted rectangle is cell_w >= 1 wide and cell_h >= 1 high,
\* its lower-left corner is the lattice point (offset_x + col * cell_w,
\* offset_y + row * cell_h), and the rectangles of two distinct cells have
\* disjoint interiors
C20_Lattice ==
  /\ \A i \in 1..Len(calls) : IsCreate(calls[i]) =>
       /\ cell_w >= 1 /\ cell_h >= 1
       /\ calls[i].urx - calls[i].llx = cell_w
       /\ calls[i].ury - calls[i].lly = cell_h
       /\ calls[i].llx = offset_x + calls[i].c * cell_w
       /\ calls[i].lly = offset_y + calls[i].r * cell_h
  /\ \A i, j \in 1..Len(calls) :
       (/\ IsCreate(calls[i]) /\ IsCreate(calls[j])
        /\ <<calls[i].r, calls[i].c>> # <<calls[j].r, calls[j].c>>)
         => InteriorsDisjoint(calls[i], calls[j])

C20_Witness ==
  /\ result = "ok"
  /\ cell_w >= 2 /\ cell_h >= 2
  /\ \E i, j \in 1..Len(calls) :
       /\ calls[i].op = "dbBlockage_create" /\ calls[j].op = "dbBlockage_create"
       /\ calls[i].r = calls[j].r /\ calls[j].c = calls[i].c + 1
       /\ calls[j].llx = calls[i].urx

====
